---- MODULE Spec2Model ----
(***************************************************************************)
(* Model of beanie/odm/utils/general.py: the reference resolver get_model  *)
(* and the start-up orchestrator init_beanie.                              *)
(*                                                                         *)
(* Python strings are sequences of one-character strings.  None is the     *)
(* empty tuple and a present optional value x is the one-element tuple     *)
(* <<x>>, so that "x is None" is x = None.                                 *)
(***************************************************************************)
EXTENDS Integers, Sequences, FiniteSets, TLC

VARIABLES
    sys_modules,      \* the interpreter's importable module (environment)
    dot_path,         \* argument of a direct get_model call
    resolved,         \* outcomes of the direct get_model calls, in call order
    args,             \* the arguments init_beanie was called with
    pc,               \* position of the init_beanie coroutine
    client,           \* local "client" of init_beanie
    database,         \* local "database" of init_beanie
    constructed,      \* connection strings AsyncIOMotorClient was built from
    lookups,          \* dot paths handed to get_model by init_beanie
    idx,              \* position of the for loop in document_models
    calls,            \* model routines called by init_beanie, in call order
    tasks,            \* collection_inits: the awaitables and their progress
    outer,            \* the future asyncio.gather returns
    error,            \* the exception init_beanie ended with
    first_failed,     \* history: first awaitable whose routine failed
    settled_at_exit   \* history: awaitables finished when init_beanie ended

vars == <<sys_modules, dot_path, resolved, args, pc, client, database,
          constructed, lookups, idx, calls, tasks, outer, error,
          first_failed, settled_at_exit>>

\* ------------------------------------------------------------------ bounds
MaxLen == 5       \* longest dot path given to a direct get_model call
MaxModels == 2    \* longest document_models list
MaxCalls == 2     \* direct get_model calls made on the same dot path
MaxPath == 4      \* longest path of a connection string

\* ----------------------------------------------------------------- strings
Chars == {".", "m", "C"}

None == << >>

Some(x) == <<x>>

RECURSIVE StringsUpTo(_)
StringsUpTo(n) ==
    IF n = 0 THEN {<< >>}
    ELSE LET shorter == StringsUpTo(n - 1)
         IN  shorter \cup {Append(s, c) : s \in {t \in shorter : Len(t) = n - 1}, c \in Chars}

HasDot(s) == \E k \in 1..Len(s) : s[k] = "."

\* ------------------------------------------------------------- exceptions
Exc(type, text, a, at) == [type |-> type, text |-> text, args |-> a, at |-> at]

NoError == Exc("None", "", << >>, 0)

\* ---------------------------------------------------------- model classes
Kinds == {"UnionDoc", "Document", "View"}

Class(module, name, kind) == [module |-> module, name |-> name, kind |-> kind]

NoClass == Class(<< >>, << >>, "None")

\* ------------------------------------------------------------ environment
\* What importing a module does: it raises, or it yields a module exposing
\* some attributes.
Raises(exc) == [raised |-> TRUE, exc |-> exc, attrs |-> {}]

Module(attrs) == [raised |-> FALSE, exc |-> NoError, attrs |-> attrs]

ModuleNames == {<<"m">>, <<"m", ".", "m">>}

AttrTables == {{}} \cup {{[name |-> <<"C">>, kind |-> k]} : k \in Kinds}

LoadErrors == {"ModuleNotFoundError", "ValueError", "AttributeError"}

ImportOutcomes(name) ==
    {Raises(Exc(t, "raised while importing", <<name>>, 0)) : t \in LoadErrors}
        \cup {Module(a) : a \in AttrTables}

Interpreters ==
    UNION {{[name |-> n, outcome |-> o] : o \in ImportOutcomes(n)} : n \in ModuleNames}

\* ------------------------------------------------------------- get_model
\* str.rsplit(sep, 1): split at the last separator; without a separator the
\* result is the one-element list holding the whole string.
rsplit_rpartition(s, sep) ==
    IF \E k \in 1..Len(s) : s[k] = sep
    THEN LET k == CHOOSE j \in 1..Len(s) :
                      s[j] = sep /\ \A l \in (j + 1)..Len(s) : s[l] # sep
         IN  <<SubSeq(s, 1, k - 1), SubSeq(s, k + 1, Len(s))>>
    ELSE <<<< >>, s>>

rsplit_first(s, sep) ==
    IF \E k \in 1..Len(s) : s[k] = sep
    THEN LET k == CHOOSE j \in 1..Len(s) :
                      s[j] = sep /\ \A l \in 1..(j - 1) : s[l] # sep
         IN  <<SubSeq(s, 1, k - 1), SubSeq(s, k + 1, Len(s))>>
    ELSE <<s>>

rsplit(s, sep) ==
    IF \E k \in 1..Len(s) : s[k] = sep
    THEN LET k == CHOOSE j \in 1..Len(s) :
                      s[j] = sep /\ \A l \in (j + 1)..Len(s) : s[l] # sep
         IN  <<SubSeq(s, 1, k - 1), SubSeq(s, k + 1, Len(s))>>
    ELSE <<s>>

\* importlib.import_module(name) with no package argument.
import_module(name) ==
    IF name = << >>
    THEN Raises(Exc("ValueError", "Empty module name", << >>, 0))
    ELSE IF name[1] = "."
    THEN Raises(Exc("TypeError", "relative import requires the package argument", <<name>>, 0))
    ELSE IF name = sys_modules.name
    THEN sys_modules.outcome
    ELSE Raises(Exc("ModuleNotFoundError", "No module named", <<name>>, 0))

\* The two exceptions get_model raises itself; the message is formatted from
\* the values listed in args.
NoDotPath(path) ==
    Exc("ValueError", "doesn't have '.' path, eg. path.to.your.model.class", <<path>>, 0)

NoClassCalled(module_name, class_name) ==
    Exc("AttributeError", "module has no class called", <<module_name, class_name>>, 0)

Returned(cls, imported, load) ==
    [raised |-> FALSE, exc |-> NoError, value |-> cls, imported |-> imported, load |-> load]

Raised(exc, imported, load) ==
    [raised |-> TRUE, exc |-> exc, value |-> NoClass, imported |-> imported, load |-> load]

NotLoaded == Module({})

\* The except clauses of get_model: a ValueError or an AttributeError raised
\* anywhere in the try block is replaced, anything else propagates.
\* module_name and class_name are the locals, None until the unpacking.
except_clauses_one_handler(path, module_name, class_name, exc) ==
    IF exc.type \in {"ValueError", "AttributeError"}
    THEN NoClassCalled(module_name, class_name)
    ELSE exc

except_clauses(path, module_name, class_name, exc) ==
    IF exc.type = "ValueError" THEN NoDotPath(path)
    ELSE IF exc.type = "AttributeError" THEN NoClassCalled(module_name, class_name)
    ELSE exc

\* get_model(dot_path).  The result also records the module names handed to
\* import_module and what the import did.
get_model_wrong_attribute(path) ==
    LET parts == rsplit(path, ".")
    IN  IF Len(parts) # 2
        THEN Raised(except_clauses(path, None, None,
                        Exc("ValueError", "not enough values to unpack", << >>, 0)),
                    << >>, NotLoaded)
        ELSE LET module_name == parts[1]
                 class_name == parts[2]
                 load == import_module(module_name)
             IN  IF load.raised
                 THEN Raised(except_clauses(path, Some(module_name), Some(class_name), load.exc),
                             <<module_name>>, load)
                 ELSE IF \E a \in load.attrs : a.name = module_name
                 THEN Returned(Class(module_name, module_name,
                                     (CHOOSE a \in load.attrs : a.name = module_name).kind),
                               <<module_name>>, load)
                 ELSE Raised(except_clauses(path, Some(module_name), Some(class_name),
                                 Exc("AttributeError", "module has no attribute", <<module_name>>, 0)),
                             <<module_name>>, load)

get_model(path) ==
    LET parts == rsplit(path, ".")
    IN  IF Len(parts) # 2
        THEN Raised(except_clauses(path, None, None,
                        Exc("ValueError", "not enough values to unpack", << >>, 0)),
                    << >>, NotLoaded)
        ELSE LET module_name == parts[1]
                 class_name == parts[2]
                 load == import_module(module_name)
             IN  IF load.raised
                 THEN Raised(except_clauses(path, Some(module_name), Some(class_name), load.exc),
                             <<module_name>>, load)
                 ELSE IF \E a \in load.attrs : a.name = class_name
                 THEN Returned(Class(module_name, class_name,
                                     (CHOOSE a \in load.attrs : a.name = class_name).kind),
                               <<module_name>>, load)
                 ELSE Raised(except_clauses(path, Some(module_name), Some(class_name),
                                 Exc("AttributeError", "module has no attribute", <<class_name>>, 0)),
                             <<module_name>>, load)

\* -------------------------------------------- specification of get_model
Idle == [client |-> None, database |-> None, connection_string |-> None,
         document_models |-> None, allow_index_dropping |-> FALSE,
         recreate_views |-> FALSE]

NoFuture == [state |-> "none", exc |-> NoError, nfinished |-> 0]

InitGetModel ==
    /\ sys_modules \in Interpreters
    /\ dot_path \in StringsUpTo(MaxLen)
    /\ resolved = None
    /\ args = Idle
    /\ pc = "idle"
    /\ client = None
    /\ database = None
    /\ constructed = << >>
    /\ lookups = << >>
    /\ idx = 0
    /\ calls = << >>
    /\ tasks = << >>
    /\ outer = NoFuture
    /\ error = NoError
    /\ first_failed = 0
    /\ settled_at_exit = 0

CallGetModel ==
    /\ pc = "idle"
    /\ Len(resolved) < MaxCalls
    /\ resolved' = Append(resolved, get_model(dot_path))
    /\ UNCHANGED <<sys_modules, dot_path, args, pc, client, database, constructed,
                   lookups, idx, calls, tasks, outer, error, first_failed,
                   settled_at_exit>>

NextGetModel == CallGetModel

SpecGetModel == InitGetModel /\ [][NextGetModel]_vars

\* ----------------------------------------------------------- init_beanie
\* The caller's inputs.
Entry(is_str, path, cls) == [is_str |-> is_str, path |-> path, cls |-> cls]

ClassEntries == {Entry(FALSE, << >>, Class(<<"a", "p", "p">>, <<k>>, k)) : k \in Kinds}

ModelRefs == {<<"m">>, <<"m", ".", "C">>}

StrEntries == {Entry(TRUE, p, NoClass) : p \in ModelRefs}

RECURSIVE ListsUpTo(_, _)
ListsUpTo(S, n) ==
    IF n = 0 THEN {<< >>}
    ELSE LET shorter == ListsUpTo(S, n - 1)
         IN  shorter \cup {Append(l, e) : l \in {t \in shorter : Len(t) = n - 1}, e \in S}

ModelLists == ListsUpTo(ClassEntries \cup StrEntries, MaxModels)

Handle(of_client, name) == [client |-> of_client, name |-> name]

CallerDatabase == Handle("caller's database", <<"h">>)

CallerClient == [made_by |-> "caller", uri |-> None]

ConnectionStrings == {[authority |-> "mongodb://host", path |-> <<"/", "d">>]}

Arguments ==
    [client : {None, Some(CallerClient)},
     database : {None, Some(CallerDatabase)},
     connection_string : {None} \cup {Some(c) : c \in ConnectionStrings},
     document_models : {None} \cup {Some(l) : l \in ModelLists},
     allow_index_dropping : BOOLEAN,
     recreate_views : BOOLEAN]

\* The list the for loop walks.
Models == IF args.document_models = None THEN << >> ELSE args.document_models[1]

\* Line 58: neither or both of connection_string and database.
target_check_fails_neither_only(connection_string, db) ==
    connection_string = None /\ db = None

target_check_fails(connection_string, db) ==
    \/ (connection_string = None /\ db = None)
    \/ (connection_string # None /\ db # None)

TargetError ==
    Exc("ValueError", "connection_string parameter or database parameter must be set", << >>, 0)

\* Line 65.
models_check_fails_never(document_models) == FALSE

models_check_fails(document_models) == document_models = None

ModelsError == Exc("ValueError", "document_models parameter must be set", << >>, 0)

\* URL(connection_string).path: the path of the URL, "/" when it is empty.
URL_path(connection_string) ==
    IF connection_string.path = << >> THEN <<"/">> ELSE connection_string.path

\* s[1:]
FromSecond_first_component(s) ==
    LET rest == SubSeq(s, 2, Len(s))
    IN  IF \E k \in 1..Len(rest) : rest[k] = "/"
        THEN SubSeq(rest, 1, (CHOOSE k \in 1..Len(rest) :
                                 rest[k] = "/" /\ \A l \in 1..(k - 1) : rest[l] # "/") - 1)
        ELSE rest

FromSecond(s) == SubSeq(s, 2, Len(s))

AsyncIOMotorClient(connection_string) == [made_by |-> "init_beanie", uri |-> Some(connection_string)]

\* What the three "if model.get_model_type() == ..." statements do with a
\* model of the given kind: the routine called on the spot, and the routines
\* whose awaitable is appended to collection_inits.
dispatch_union_skipped(kind) ==
    [now |-> << >>,
     collect |-> (IF kind = "Document" THEN <<"init_model">> ELSE << >>)
                     \o (IF kind = "View" THEN <<"init_view">> ELSE << >>)]

dispatch_view_as_document(kind) ==
    [now |-> IF kind = "UnionDoc" THEN <<"init">> ELSE << >>,
     collect |-> (IF kind \in {"Document", "View"} THEN <<"init_model">> ELSE << >>)
                     \o (IF kind = "View" THEN <<"init_view">> ELSE << >>)]

dispatch(kind) ==
    [now |-> IF kind = "UnionDoc" THEN <<"init">> ELSE << >>,
     collect |-> (IF kind = "Document" THEN <<"init_model">> ELSE << >>)
                     \o (IF kind = "View" THEN <<"init_view">> ELSE << >>)]

Call(entry, routine, db, option, outcome) ==
    [entry |-> entry, routine |-> routine, database |-> db, option |-> option,
     outcome |-> outcome]

\* The coroutine object a call of init_model / init_view returns: its body
\* has not begun.
Awaitable_started_at_once(entry, routine, db, option) ==
    [entry |-> entry, routine |-> routine, database |-> db, option |-> option,
     state |-> "scheduled"]

Awaitable(entry, routine, db, option) ==
    [entry |-> entry, routine |-> routine, database |-> db, option |-> option,
     state |-> "created"]

option_of_swapped(routine) ==
    IF routine = "init_model" THEN args.recreate_views ELSE args.allow_index_dropping

option_of(routine) ==
    IF routine = "init_model" THEN args.allow_index_dropping ELSE args.recreate_views

InitError(entry) == Exc("InitError", "init", << >>, entry)

SetupError(k) == Exc("SetupError", tasks[k].routine, << >>, k)

Finished(ts) == {k \in DOMAIN ts : ts[k].state \in {"done", "failed"}}

Init ==
    /\ sys_modules \in {e \in Interpreters : e.name = <<"m">>}
    /\ dot_path = << >>
    /\ resolved = None
    /\ args \in Arguments
    /\ pc = "check_target"
    /\ client = args.client
    /\ database = args.database
    /\ constructed = << >>
    /\ lookups = << >>
    /\ idx = 0
    /\ calls = << >>
    /\ tasks = << >>
    /\ outer = NoFuture
    /\ error = NoError
    /\ first_failed = 0
    /\ settled_at_exit = 0

Raise(exc) ==
    /\ pc' = "raised"
    /\ error' = exc
    /\ settled_at_exit' = Cardinality(Finished(tasks))

\* Lines 58-63.
CheckTarget ==
    /\ pc = "check_target"
    /\ IF target_check_fails(args.connection_string, database)
       THEN Raise(TargetError)
       ELSE pc' = "check_models" /\ UNCHANGED <<error, settled_at_exit>>
    /\ UNCHANGED <<sys_modules, dot_path, resolved, args, client, database,
                   constructed, lookups, idx, calls, tasks, outer, first_failed>>

\* Lines 65-66.
CheckModels ==
    /\ pc = "check_models"
    /\ IF models_check_fails(args.document_models)
       THEN Raise(ModelsError)
       ELSE pc' = "derive" /\ UNCHANGED <<error, settled_at_exit>>
    /\ UNCHANGED <<sys_modules, dot_path, resolved, args, client, database,
                   constructed, lookups, idx, calls, tasks, outer, first_failed>>

\* Lines 68-74.
DeriveTarget_always_constructs ==
    /\ pc = "derive"
    /\ IF args.connection_string # None /\ database = None
       THEN LET cs == args.connection_string[1]
                c == AsyncIOMotorClient(cs)
            IN  /\ constructed' = Append(constructed, cs)
                /\ client' = Some(c)
                /\ database' = Some(Handle(c.made_by, FromSecond(URL_path(cs))))
       ELSE UNCHANGED <<client, database, constructed>>
    /\ pc' = "for"
    /\ idx' = 1
    /\ UNCHANGED <<sys_modules, dot_path, resolved, args, lookups, calls, tasks,
                   outer, error, first_failed, settled_at_exit>>

DeriveTarget ==
    /\ pc = "derive"
    /\ IF args.connection_string # None /\ database = None
       THEN LET cs == args.connection_string[1]
                c == IF client # None THEN client[1] ELSE AsyncIOMotorClient(cs)
            IN  /\ constructed' = IF client # None THEN constructed ELSE Append(constructed, cs)
                /\ client' = Some(c)
                /\ database' = Some(Handle(c.made_by, FromSecond(URL_path(cs))))
       ELSE UNCHANGED <<client, database, constructed>>
    /\ pc' = "for"
    /\ idx' = 1
    /\ UNCHANGED <<sys_modules, dot_path, resolved, args, lookups, calls, tasks,
                   outer, error, first_failed, settled_at_exit>>

\* Lines 75-91: one pass of the loop body.  model.init runs on the spot and
\* may raise; init_model / init_view only build their awaitable.
LoopBody ==
    /\ pc = "for"
    /\ idx <= Len(Models)
    /\ LET entry == Models[idx]
           res == IF entry.is_str THEN get_model(entry.path)
                  ELSE Returned(entry.cls, << >>, NotLoaded)
           d == dispatch(res.value.kind)
           made == [n \in 1..Len(d.collect) |->
                       Awaitable(idx, d.collect[n], database[1], option_of(d.collect[n]))]
       IN  /\ lookups' = IF entry.is_str THEN Append(lookups, entry.path) ELSE lookups
           /\ IF res.raised
              THEN /\ Raise(res.exc)
                   /\ UNCHANGED <<idx, calls, tasks>>
              ELSE \E init_returns \in IF d.now = << >> THEN {TRUE} ELSE BOOLEAN :
                       IF init_returns
                       THEN /\ calls' = calls
                                    \o [n \in 1..Len(d.now) |->
                                           Call(idx, d.now[n], database[1], None, "returned")]
                                    \o [n \in 1..Len(made) |->
                                           Call(idx, made[n].routine, made[n].database,
                                                Some(made[n].option), "awaitable")]
                            /\ tasks' = tasks \o made
                            /\ idx' = idx + 1
                            /\ UNCHANGED <<pc, error, settled_at_exit>>
                       ELSE /\ calls' = Append(calls, Call(idx, d.now[1], database[1], None, "raised"))
                            /\ Raise(InitError(idx))
                            /\ UNCHANGED <<idx, tasks>>
    /\ UNCHANGED <<sys_modules, dot_path, resolved, args, client, database,
                   constructed, outer, first_failed>>

\* Line 93, asyncio.gather(*collection_inits): every awaitable is wrapped in
\* a task of the event loop; with no awaitable the future is already done.
schedule(ts) == [k \in DOMAIN ts |-> [ts[k] EXCEPT !.state = "scheduled"]]

Gather ==
    /\ pc = "for"
    /\ idx > Len(Models)
    /\ tasks' = schedule(tasks)
    /\ outer' = IF tasks = << >>
                THEN [state |-> "result", exc |-> NoError, nfinished |-> 0]
                ELSE [state |-> "pending", exc |-> NoError, nfinished |-> 0]
    /\ pc' = "await"
    /\ UNCHANGED <<sys_modules, dot_path, resolved, args, client, database,
                   constructed, lookups, idx, calls, error, first_failed,
                   settled_at_exit>>

\* The event loop begins a scheduled task: the routine's body starts.
TaskStart_in_list_order(k) ==
    /\ tasks[k].state = "scheduled"
    /\ \A j \in 1..(k - 1) : tasks[j].state \in {"done", "failed"}
    /\ tasks' = [tasks EXCEPT ![k].state = "running"]
    /\ UNCHANGED <<sys_modules, dot_path, resolved, args, pc, client, database,
                   constructed, lookups, idx, calls, outer, error, first_failed,
                   settled_at_exit>>

TaskStart(k) ==
    /\ tasks[k].state = "scheduled"
    /\ tasks' = [tasks EXCEPT ![k].state = "running"]
    /\ UNCHANGED <<sys_modules, dot_path, resolved, args, pc, client, database,
                   constructed, lookups, idx, calls, outer, error, first_failed,
                   settled_at_exit>>

\* gather's callback on a finished child (return_exceptions is False): a
\* done outer future is left alone; an exception is set on it at once; the
\* result is set with the last child.
done_callback_last_wins(fut, nfuts, failed, exc) ==
    IF failed THEN [fut EXCEPT !.state = "exception", !.exc = exc]
    ELSE IF fut.state # "pending" THEN fut
    ELSE IF fut.nfinished + 1 = nfuts
    THEN [fut EXCEPT !.state = "result", !.nfinished = fut.nfinished + 1]
    ELSE [fut EXCEPT !.nfinished = fut.nfinished + 1]

done_callback_first_result(fut, nfuts, failed, exc) ==
    IF fut.state # "pending" THEN fut
    ELSE IF failed THEN [fut EXCEPT !.state = "exception", !.exc = exc]
    ELSE [fut EXCEPT !.state = "result", !.nfinished = fut.nfinished + 1]

done_callback_return_exceptions(fut, nfuts, failed, exc) ==
    IF fut.state # "pending" THEN fut
    ELSE IF fut.nfinished + 1 = nfuts
    THEN [fut EXCEPT !.state = "result", !.nfinished = fut.nfinished + 1]
    ELSE [fut EXCEPT !.nfinished = fut.nfinished + 1]

done_callback_counts_one_more(fut, nfuts, failed, exc) ==
    IF fut.state # "pending" THEN fut
    ELSE IF failed THEN [fut EXCEPT !.state = "exception", !.exc = exc]
    ELSE IF fut.nfinished = nfuts
    THEN [fut EXCEPT !.state = "result", !.nfinished = fut.nfinished + 1]
    ELSE [fut EXCEPT !.nfinished = fut.nfinished + 1]

done_callback(fut, nfuts, failed, exc) ==
    IF fut.state # "pending" THEN fut
    ELSE IF failed THEN [fut EXCEPT !.state = "exception", !.exc = exc]
    ELSE IF fut.nfinished + 1 = nfuts
    THEN [fut EXCEPT !.state = "result", !.nfinished = fut.nfinished + 1]
    ELSE [fut EXCEPT !.nfinished = fut.nfinished + 1]

\* What gather does to the other children when child k fails: nothing.
siblings_cancelled(ts, k) ==
    [j \in DOMAIN ts |->
        IF j # k /\ ts[j].state \in {"scheduled", "running"}
        THEN [ts[j] EXCEPT !.state = "cancelled"] ELSE ts[j]]

siblings(ts, k) == ts

\* A running routine returns or raises; gather's callback runs.
TaskFinish(k) ==
    /\ tasks[k].state = "running"
    /\ \E failed \in BOOLEAN :
           /\ tasks' = IF failed
                       THEN siblings([tasks EXCEPT ![k].state = "failed"], k)
                       ELSE [tasks EXCEPT ![k].state = "done"]
           /\ outer' = done_callback(outer, Len(tasks), failed, SetupError(k))
           /\ first_failed' = IF failed /\ first_failed = 0 THEN k ELSE first_failed
    /\ UNCHANGED <<sys_modules, dot_path, resolved, args, pc, client, database,
                   constructed, lookups, idx, calls, error, settled_at_exit>>

\* Line 93, the await: init_beanie resumes once the outer future is done.
Resume ==
    /\ pc = "await"
    /\ outer.state # "pending"
    /\ IF outer.state = "exception"
       THEN Raise(outer.exc)
       ELSE /\ pc' = "returned"
            /\ settled_at_exit' = Cardinality(Finished(tasks))
            /\ UNCHANGED error
    /\ UNCHANGED <<sys_modules, dot_path, resolved, args, client, database,
                   constructed, lookups, idx, calls, tasks, outer, first_failed>>

Next ==
    \/ CheckTarget
    \/ CheckModels
    \/ DeriveTarget
    \/ LoopBody
    \/ Gather
    \/ \E k \in DOMAIN tasks : TaskStart(k)
    \/ \E k \in DOMAIN tasks : TaskFinish(k)
    \/ Resume

Spec == Init /\ [][Next]_vars

\* The event loop keeps running what is ready, and a routine that has begun
\* comes to its end: a step that can be taken is eventually taken.
\* The two options only travel to the routines, so the calls are taken with
\* their defaults here.
InitFair ==
    /\ Init
    /\ args.allow_index_dropping = FALSE
    /\ args.recreate_views = FALSE

SpecFair == InitFair /\ [][Next]_vars /\ WF_vars(Next)

\* ------------------------------- init_beanie over connection-string paths
\* Calls with a connection string only, over every path the URL can have:
\* empty, or beginning with "/".
PathChars == {"/", "d"}

UrlPaths == {p \in ListsUpTo(PathChars, MaxPath) : p = << >> \/ p[1] = "/"}

TargetArguments ==
    [client : {None, Some(CallerClient)},
     database : {None},
     connection_string : {Some([authority |-> "mongodb://host", path |-> p]) : p \in UrlPaths},
     document_models : {Some(l) : l \in ListsUpTo(ClassEntries, 1)},
     allow_index_dropping : {FALSE},
     recreate_views : {FALSE}]

InitTarget ==
    /\ sys_modules \in {e \in Interpreters : e.name = <<"m">> /\ e.outcome = Module({})}
    /\ dot_path = << >>
    /\ resolved = None
    /\ args \in TargetArguments
    /\ pc = "check_target"
    /\ client = args.client
    /\ database = args.database
    /\ constructed = << >>
    /\ lookups = << >>
    /\ idx = 0
    /\ calls = << >>
    /\ tasks = << >>
    /\ outer = NoFuture
    /\ error = NoError
    /\ first_failed = 0
    /\ settled_at_exit = 0

SpecTarget == InitTarget /\ [][Next]_vars

\* ------------------------------------------------- claims about get_model
\* The split of a dotted path at its last '.', stated apart from rsplit.
LastDot(s) == CHOOSE k \in 1..Len(s) : s[k] = "." /\ \A l \in (k + 1)..Len(s) : s[l] # "."

Namespace(s) == SubSeq(s, 1, LastDot(s) - 1)

Identifier(s) == SubSeq(s, LastDot(s) + 1, Len(s))

\* C8 (as claimed): whenever the import of the namespace raises, get_model
\* raises that very exception, whatever its type.
C8_LoadErrorPropagatesUnchanged ==
    (resolved # None /\ resolved[1].imported # << >>
        /\ import_module(resolved[1].imported[1]).raised)
    => (resolved[1].raised
        /\ resolved[1].exc = import_module(resolved[1].imported[1]).exc)

\* C9: a path without '.' makes get_model raise the ValueError naming the
\* path, and import_module is never called.
C9_NoDotIsInvalidFormat ==
    (resolved # None /\ ~HasDot(dot_path))
    => /\ resolved[1].raised
       /\ resolved[1].exc.type = "ValueError"
       /\ resolved[1].exc.text = "doesn't have '.' path, eg. path.to.your.model.class"
       /\ resolved[1].exc.args = <<dot_path>>
       /\ resolved[1].imported = << >>

C9_Witness ==
    /\ resolved # None
    /\ ~HasDot(dot_path)
    /\ Len(dot_path) > 1
    /\ resolved[1].raised

\* C10: when the namespace before the last '.' loads and has no attribute
\* named by the identifier after it, get_model raises the AttributeError
\* naming that namespace and that identifier.
NamespaceLacksIdentifier ==
    /\ HasDot(dot_path)
    /\ sys_modules.name = Namespace(dot_path)
    /\ ~sys_modules.outcome.raised
    /\ \A a \in sys_modules.outcome.attrs : a.name # Identifier(dot_path)

C10_MissingAttributeIsUnresolved ==
    (resolved # None /\ NamespaceLacksIdentifier)
    => /\ resolved[1].raised
       /\ resolved[1].exc.type = "AttributeError"
       /\ resolved[1].exc.text = "module has no class called"
       /\ resolved[1].exc.args = <<Some(Namespace(dot_path)), Some(Identifier(dot_path))>>

C10_Witness ==
    /\ resolved # None
    /\ NamespaceLacksIdentifier
    /\ HasDot(Namespace(dot_path))
    /\ resolved[1].exc.type = "AttributeError"

\* C11: when the namespace before the last '.' loads and exposes the
\* identifier after it, every get_model call on the path returns that
\* attribute of that namespace, and every call imports the namespace again.
NamespaceExposesIdentifier ==
    /\ HasDot(dot_path)
    /\ sys_modules.name = Namespace(dot_path)
    /\ ~sys_modules.outcome.raised
    /\ \E a \in sys_modules.outcome.attrs : a.name = Identifier(dot_path)

DirectAccess ==
    LET a == CHOOSE b \in sys_modules.outcome.attrs : b.name = Identifier(dot_path)
    IN  [module |-> sys_modules.name, name |-> a.name, kind |-> a.kind]

C11_ResolvesToTheAttribute ==
    NamespaceExposesIdentifier
    => \A n \in 1..Len(resolved) :
           /\ ~resolved[n].raised
           /\ resolved[n].value = DirectAccess
           /\ resolved[n].imported = <<Namespace(dot_path)>>

C11_Witness ==
    /\ NamespaceExposesIdentifier
    /\ Len(resolved) > 1
    /\ resolved[1].value = resolved[Len(resolved)].value
    /\ HasDot(Namespace(dot_path))

\* ----------------------------------------------- claims about init_beanie
KindOf(e) == IF e.is_str THEN get_model(e.path).value.kind ELSE e.cls.kind

UnionEntries == {j \in 1..Len(Models) : KindOf(Models[j]) = "UnionDoc"}

SetupEntries == {j \in 1..Len(Models) : KindOf(Models[j]) \in {"Document", "View"}}

Begun(k) == tasks[k].state \in {"running", "done", "failed"}

InitCompleted(j) ==
    \E c \in 1..Len(calls) :
        calls[c].entry = j /\ calls[c].routine = "init" /\ calls[c].outcome = "returned"

\* C1: once the body of any init_model / init_view has begun, init has been
\* called and has returned for every UnionDoc entry of the list, those after
\* the Document / View entry included.
C1_UnionInitsBeforeSetup ==
    (\E k \in DOMAIN tasks : Begun(k)) => \A j \in UnionEntries : InitCompleted(j)

C1_Witness ==
    \E k \in DOMAIN tasks :
        /\ Begun(k)
        /\ \E j \in UnionEntries : j > tasks[k].entry /\ InitCompleted(j)

\* C2: when init_beanie has returned, every Document and View entry has an
\* awaitable, and every awaitable has run to its end without failing.
C2_ReturnMeansAllSetUp ==
    pc = "returned"
    => /\ \A j \in SetupEntries : \E k \in DOMAIN tasks : tasks[k].entry = j
       /\ \A k \in DOMAIN tasks : tasks[k].state = "done"

C2_Witness ==
    /\ pc = "returned"
    /\ \E d, v \in DOMAIN tasks :
           tasks[d].routine = "init_model" /\ tasks[v].routine = "init_view"

\* C3: when a Document's routine has failed and a View's has not, and no
\* other routine failed, init_beanie cannot return, it fails with the
\* Document's exception, and the View's task is never cancelled: it is done
\* or can still take its next step, also after init_beanie has failed.
OnlyFailure(d) == \A k \in DOMAIN tasks : tasks[k].state = "failed" <=> k = d

CanProceed(v) ==
    \/ tasks[v].state = "done"
    \/ tasks[v].state = "scheduled" /\ ENABLED TaskStart(v)
    \/ tasks[v].state = "running" /\ ENABLED TaskFinish(v)

C3_FailureLeavesSiblingRunning ==
    \A d, v \in DOMAIN tasks :
        (tasks[d].routine = "init_model" /\ tasks[v].routine = "init_view" /\ OnlyFailure(d))
        => /\ pc \in {"await", "raised"}
           /\ pc = "raised" => (error.type = "SetupError" /\ error.at = d)
           /\ CanProceed(v)

C3_Witness ==
    \E d, v \in DOMAIN tasks :
        /\ tasks[d].routine = "init_model" /\ tasks[v].routine = "init_view"
        /\ OnlyFailure(d)
        /\ pc = "raised"
        /\ tasks[v].state = "done"
        /\ settled_at_exit < Len(tasks)

\* C4: when the await of line 93 raises, the exception is the one raised by
\* the routine that failed first in time, as that routine raised it.
C4_FirstFailureInTimeSurfaces ==
    (pc = "raised" /\ outer.state # "none")
    => /\ first_failed \in DOMAIN tasks
       /\ error = [type |-> "SetupError", text |-> tasks[first_failed].routine,
                   args |-> << >>, at |-> first_failed]

C4_Witness ==
    /\ pc = "raised"
    /\ first_failed > 1
    /\ \A k \in DOMAIN tasks : tasks[k].state = "failed"
    /\ error.at = first_failed

\* C5: with both or neither of database and connection_string, init_beanie
\* ends at line 61 with the target ValueError; no client is constructed, no
\* reference is resolved and no model routine is called.
BothOrNeither == (args.connection_string = None) <=> (args.database = None)

NothingTouched ==
    /\ constructed = << >>
    /\ lookups = << >>
    /\ calls = << >>
    /\ tasks = << >>
    /\ client = args.client
    /\ database = args.database

C5_BadTargetFailsFirst ==
    (BothOrNeither /\ pc # "idle")
    => /\ pc \in {"check_target", "raised"}
       /\ pc = "raised" => error = TargetError
       /\ NothingTouched

C5_Witness ==
    /\ pc = "raised"
    /\ args.connection_string # None
    /\ args.database # None
    /\ args.document_models # None /\ Len(Models) > 1

\* C6 (as claimed): with no model list or an empty one, init_beanie fails
\* with a ValueError before anything is constructed or called.
NoModels == args.document_models = None \/ args.document_models = Some(<< >>)

C6_EmptyListRejected ==
    (NoModels /\ pc # "idle")
    => /\ pc \in {"check_target", "check_models", "raised"}
       /\ pc = "raised" => error.type = "ValueError"
       /\ NothingTouched

\* C6 (amended): with no model list (None) init_beanie fails at line 66
\* before anything is constructed or called; an empty list passes the check
\* and, with a valid target, the call returns without calling any routine.
C6_MissingListRejected ==
    /\ (args.document_models = None /\ pc # "idle")
       => /\ pc \in {"check_target", "check_models", "raised"}
          /\ pc = "raised" => error \in {TargetError, ModelsError}
          /\ (pc = "raised" /\ ~BothOrNeither) => error = ModelsError
          /\ NothingTouched
    /\ (args.document_models = Some(<< >>) /\ ~BothOrNeither)
       => /\ pc # "raised"
          /\ calls = << >> /\ tasks = << >>

C6_Witness ==
    /\ pc = "raised"
    /\ error = ModelsError
    /\ args.connection_string # None
    /\ args.client = None

\* C7 (as claimed): when some textual entry has no '.', init_beanie fails
\* with the ValueError naming it before any awaitable is created and before
\* any routine is called, wherever the entry is in the list.
NoDotEntries == {j \in 1..Len(Models) : Models[j].is_str /\ ~HasDot(Models[j].path)}

ChecksPassed == ~BothOrNeither /\ args.document_models # None

C7_BadRefFailsBeforeAnyTask ==
    (ChecksPassed /\ NoDotEntries # {})
    => /\ calls = << >>
       /\ tasks = << >>
       /\ pc # "returned"
       /\ pc = "raised" => \E j \in NoDotEntries : error = NoDotPath(Models[j].path)

\* C7 (amended): the loop stops at the first entry without '.': if it gets
\* there init_beanie fails with the ValueError naming that entry; no routine
\* is called and no awaitable is created for that entry or a later one, and
\* no awaitable created for an earlier entry is ever scheduled.
FirstNoDot == CHOOSE j \in NoDotEntries : \A l \in NoDotEntries : j <= l

C7_BadRefStopsTheLoop ==
    (ChecksPassed /\ NoDotEntries # {})
    => /\ idx <= FirstNoDot
       /\ pc \in {"check_target", "check_models", "derive", "for", "raised"}
       /\ (pc = "raised" /\ idx = FirstNoDot)
              => /\ error.type = "ValueError"
                 /\ error.args = <<Models[FirstNoDot].path>>
                 /\ error.text = "doesn't have '.' path, eg. path.to.your.model.class"
       /\ \A c \in 1..Len(calls) : calls[c].entry < FirstNoDot
       /\ \A k \in DOMAIN tasks : tasks[k].entry < FirstNoDot /\ tasks[k].state = "created"

C7_Witness ==
    /\ ChecksPassed
    /\ NoDotEntries # {}
    /\ pc = "raised"
    /\ idx = FirstNoDot
    /\ tasks # << >>
    /\ error.type = "ValueError"

\* C12 (as claimed): with a connection string only, the database selected
\* is named by the first component of the connection string's path.
Derived ==
    /\ args.database = None
    /\ args.connection_string # None
    /\ pc \notin {"idle", "check_target", "check_models", "derive"}
    /\ idx > 0

GivenPath == args.connection_string[1].path

Unslashed(p) == IF p # << >> /\ p[1] = "/" THEN SubSeq(p, 2, Len(p)) ELSE p

FirstComponent(p) ==
    LET rest == Unslashed(p)
        ends == {k \in 1..Len(rest) : rest[k] = "/"}
    IN  IF ends = {} THEN rest
        ELSE SubSeq(rest, 1, (CHOOSE k \in ends : \A l \in ends : k <= l) - 1)

C12_NameIsFirstComponent ==
    Derived => database # None /\ database[1].name = FirstComponent(GivenPath)

\* C12 (amended): the database selected is named by the whole path with its
\* leading separator stripped, later separators and components included;
\* that is the first component when the path has no second separator.
C12_NameIsPathWithoutLeadingSlash ==
    Derived
    => /\ database # None
       /\ database[1].name = Unslashed(GivenPath)
       /\ (\A k \in 1..Len(Unslashed(GivenPath)) : Unslashed(GivenPath)[k] # "/")
              => database[1].name = FirstComponent(GivenPath)

C12_Witness ==
    /\ Derived
    /\ pc = "returned"
    /\ database[1].name # FirstComponent(GivenPath)
    /\ database[1].name = <<"d", "/", "d">>

\* C13 (as claimed): once init_beanie has ended and every awaitable has
\* finished, the exception of every failed routine has reached the caller.
Failed == {k \in DOMAIN tasks : tasks[k].state = "failed"}

AllSettled == outer.state # "none" /\ \A k \in DOMAIN tasks : tasks[k].state \in {"done", "failed"}

C13_EveryFailureSurfaces ==
    (pc \in {"returned", "raised"} /\ AllSettled)
    => \A k \in Failed : pc = "raised" /\ error.type = "SetupError" /\ error.at = k

\* C13 (amended): init_beanie never returns once a routine has failed and
\* always ends with an exception when it fails; of the failed routines only
\* the first to fail has its exception raised, the exceptions of later
\* failures are dropped; no routine is called twice.
C13_FailureFailsTheCall ==
    /\ Failed # {} => pc \in {"await", "raised"}
    /\ pc = "raised" => error # NoError
    /\ (pc = "raised" /\ outer.state # "none")
           => /\ first_failed \in Failed
              /\ error.type = "SetupError" /\ error.at = first_failed
    /\ \A c, e \in 1..Len(calls) : calls[c].entry = calls[e].entry => c = e
    /\ Len(tasks) <= Len(calls)

C13_Witness ==
    /\ pc = "raised"
    /\ AllSettled
    /\ Cardinality(Failed) > 1
    /\ \E k \in Failed : error.at # k

\* C14: once the loop has run to its end, exactly one routine has been
\* called for each entry of the list, in list order and once: init for a
\* UnionDoc, init_model for a Document, init_view for a View; and
\* collection_inits holds one awaitable for each Document or View entry.
LoopCompleted == outer.state # "none"

RoutineFor(kind) ==
    IF kind = "UnionDoc" THEN "init"
    ELSE IF kind = "Document" THEN "init_model"
    ELSE "init_view"

C14_OneRoutinePerEntry ==
    LoopCompleted
    => /\ Len(calls) = Len(Models)
       /\ \A j \in 1..Len(calls) :
              /\ calls[j].entry = j
              /\ calls[j].routine = RoutineFor(KindOf(Models[j]))
       /\ Len(tasks) = Cardinality(SetupEntries)
       /\ \A k \in DOMAIN tasks :
              /\ tasks[k].entry \in SetupEntries
              /\ tasks[k].routine = RoutineFor(KindOf(Models[tasks[k].entry]))
       /\ \A k, l \in DOMAIN tasks : tasks[k].entry = tasks[l].entry => k = l

C14_Witness ==
    /\ LoopCompleted
    /\ pc = "returned"
    /\ Len(Models) > 1
    /\ KindOf(Models[1]) = "View"
    /\ Models[Len(Models)].is_str /\ KindOf(Models[Len(Models)]) = "UnionDoc"

\* C15: every routine is called with the one database target of the call,
\* the handle given or the one derived from the connection string, and the
\* local holding it keeps that value; init_model is given the caller's
\* allow_index_dropping and init_view the caller's recreate_views.
TargetOfTheCall ==
    IF args.database # None THEN args.database[1]
    ELSE [client |-> IF args.client # None THEN "caller" ELSE "init_beanie",
          name |-> Unslashed(GivenPath)]

OptionFor(routine) ==
    IF routine = "init" THEN None
    ELSE IF routine = "init_model" THEN Some(args.allow_index_dropping)
    ELSE Some(args.recreate_views)

C15_SameTargetAndOwnOption ==
    (~BothOrNeither /\ idx > 0)
    => /\ database = Some(TargetOfTheCall)
       /\ \A c \in 1..Len(calls) :
              /\ calls[c].database = TargetOfTheCall
              /\ calls[c].option = OptionFor(calls[c].routine)
       /\ \A k \in DOMAIN tasks :
              /\ tasks[k].database = TargetOfTheCall
              /\ Some(tasks[k].option) = OptionFor(tasks[k].routine)

C15_Witness ==
    /\ pc = "returned"
    /\ args.allow_index_dropping # args.recreate_views
    /\ args.database = None
    /\ \E d, v \in DOMAIN tasks :
           /\ tasks[d].routine = "init_model" /\ tasks[d].option = args.allow_index_dropping
           /\ tasks[v].routine = "init_view" /\ tasks[v].option = args.recreate_views

\* C16: after the gather no awaitable waits for another one: each scheduled
\* awaitable can start and each running one can finish whatever the state
\* of the others, so two can be running together and they finish in any
\* order.
C16_NoTaskWaitsForAnother ==
    \A k \in DOMAIN tasks :
        /\ tasks[k].state = "scheduled" => ENABLED TaskStart(k)
        /\ tasks[k].state = "running" => ENABLED TaskFinish(k)

C16_Witness ==
    /\ Len(tasks) > 1
    /\ \A k \in DOMAIN tasks : tasks[k].state = "running"

\* C17: with a connection string and no database, a client given by the
\* caller is the one the database is selected from and none is constructed;
\* without one, exactly one client is constructed, from the connection
\* string; with a database given, no client is constructed and the given
\* database is the target as it is.
C17_ClientReuse ==
    /\ idx = 0 => constructed = << >> /\ client = args.client
    /\ (idx > 0 /\ args.database = None /\ args.client # None)
           => /\ constructed = << >>
              /\ client = args.client
              /\ database[1].client = args.client[1].made_by
    /\ (idx > 0 /\ args.database = None /\ args.client = None)
           => /\ constructed = <<args.connection_string[1]>>
              /\ client = Some([made_by |-> "init_beanie", uri |-> args.connection_string])
              /\ database[1].client = "init_beanie"
    /\ (idx > 0 /\ args.database # None)
           => /\ constructed = << >>
              /\ client = args.client
              /\ database = args.database

C17_Witness ==
    /\ pc = "returned"
    /\ args.database = None
    /\ args.client # None
    /\ constructed = << >>
    /\ Len(tasks) > 0

\* C18: when the loop is left by an exception, of get_model or of a
\* UnionDoc's init, init_beanie ends with that exception; the awaitables
\* collected for earlier entries are never scheduled, so no init_model or
\* init_view body ever begins; the init calls of earlier UnionDoc entries
\* have returned and stay recorded.
LoopAborted == pc = "raised" /\ idx > 0 /\ outer.state = "none"

ErrorOfEntry(j) ==
    IF Models[j].is_str /\ get_model(Models[j].path).raised
    THEN get_model(Models[j].path).exc
    ELSE [type |-> "InitError", text |-> "init", args |-> << >>, at |-> j]

C18_AbortedLoopRunsNothing ==
    LoopAborted
    => /\ error = ErrorOfEntry(idx)
       /\ \A k \in DOMAIN tasks : tasks[k].state = "created" /\ tasks[k].entry < idx
       /\ Len(tasks) = Cardinality({j \in SetupEntries : j < idx})
       /\ \A j \in UnionEntries : j < idx => InitCompleted(j)

C18_Witness ==
    /\ LoopAborted
    /\ tasks # << >>
    /\ error.type = "InitError"

\* C19: when the checks pass and every textual entry resolves, init_beanie
\* eventually returns or raises; and it never stays at the await once every
\* awaitable has finished.
AllResolve == \A j \in 1..Len(Models) : Models[j].is_str => ~get_model(Models[j].path).raised

Ended == pc \in {"returned", "raised"}

C19_CallEnds ==
    /\ (ChecksPassed /\ AllResolve) ~> Ended
    /\ (pc = "await" /\ \A k \in DOMAIN tasks : tasks[k].state \in {"done", "failed"}) ~> Ended

C19_Witness ==
    /\ ChecksPassed
    /\ AllResolve
    /\ pc = "returned"
    /\ Len(tasks) > 1
    /\ \E j \in 1..Len(Models) : Models[j].is_str

====
